---- MODULE Spec2Model ----
(***************************************************************************)
(* Model of the multi-source downloader (package download):                *)
(* Service.Download, fetchFileMetadataFromSources, downloadFileContents,   *)
(* fetchChunk and the helpers they call.  One Download call is modelled:   *)
(* the probe goroutines, the collector, the chunk goroutines of the        *)
(* errgroup and the main goroutine each take steps.                        *)
(***************************************************************************)
EXTENDS Integers, Sequences, FiniteSets, TLC

\* ---------------------------------------------------------------- bounds
MaxUrls == 2
MaxSize == 3
MaxConn == 2
\* the chunk loop of a file of size S >= connections plans at most S chunks,
\* so only the loop that never advances is cut short by this
MaxChunks == MaxSize

\* ---------------------------------------------------------------- errors
\* service.go:17-24, plus the errors of the libraries the code returns as is
Nil == "nil"
ErrNoSourceUrls == "ErrNoSourceUrls"
ErrSourcesFileMismatch == "ErrSourcesFileMismatch"
ErrETagMismatch == "ErrETagMismatch"
ErrUnknownContentLength == "ErrUnknownContentLength"
ErrPartialRequestUnsupported == "ErrPartialRequestUnsupported"
ErrFailedChunkDownloadAllSources == "ErrFailedChunkDownloadAllSources"
ErrTransport == "transport error"
ErrStatus == "received non-200 response"
ErrCreate == "os.Create error"
ErrWrite == "write error"
ErrRename == "os.Rename error"
PanicIndex == "panic: index out of range"

NoResult == "running"

\* ---------------------------------------------------------------- files
\* a path of the file system holds no file, or a file: the sequence of its
\* bytes; position p (0-based) is element p+1
Absent == [exists |-> FALSE, bytes |-> <<>>]

File(b) == [exists |-> TRUE, bytes |-> b]

Min(a, b) == IF a < b THEN a ELSE b

Max(a, b) == IF a < b THEN b ELSE a

\* the two files of n bytes the servers may hold; their bytes differ at every
\* position and within a file from position to position
FileA(n) == [p \in 1..n |-> p]

FileB(n) == [p \in 1..n |-> p + 10]

OldDest == File(<<99>>)

\* crypto/md5 followed by %x: a digest of the whole byte sequence,
\* rendered as the text that is compared with the ETag
RECURSIVE MD5Sum(_)
MD5Sum(b) ==
    IF b = <<>> THEN 107
    ELSE 100 + ((MD5Sum(SubSeq(b, 1, Len(b) - 1)) * 31 + b[Len(b)] + 1) % 251)

\* io.NewOffsetWriter(destFile, offset) + io.Copy: pwrite at the offset;
\* a gap between the end of the file and the offset reads as zero bytes
WriteAtAppend(file, off, bytes) == file \o bytes

WriteAt(file, off, bytes) ==
    IF bytes = <<>> THEN file
    ELSE [p \in 1..Max(Len(file), off + Len(bytes)) |->
            IF p > off /\ p <= off + Len(bytes) THEN bytes[p - off]
            ELSE IF p <= Len(file) THEN file[p]
            ELSE 0]

\* getMD5Hash: Stat for the size, one Read from the start of the file
getMD5Hash(file) == <<MD5Sum(file)>>

\* strings.Trim(s, `"`): drop the quote characters at both ends; a header
\* value is a sequence of characters, the quote character being 34 and every
\* digest a single character above 99
Quote == 34

RECURSIVE TrimLeft(_)
TrimLeft(s) ==
    IF s # <<>> /\ Head(s) = Quote THEN TrimLeft(Tail(s)) ELSE s

RECURSIVE TrimRight(_)
TrimRight(s) ==
    IF s # <<>> /\ s[Len(s)] = Quote THEN TrimRight(SubSeq(s, 1, Len(s) - 1))
    ELSE s

Trim(s) == TrimRight(TrimLeft(s))

\* ---------------------------------------------------------------- state
VARIABLES
    sourceUrls,     \* Download's argument: the URLs, here 1..n in input order
    connections,    \* opts.Connections
    checkETag,      \* opts.CheckETag
    server,         \* per URL: the server's file, headers and latencies
    destInit,       \* the file at opts.DestFilePath when Download was called
    dest,           \* the file at opts.DestFilePath
    staging,        \* the file at opts.DestFilePath + ".download"
    stagingOpen,    \* ongoingDownloadFile is open
    pc,             \* position of the goroutine running Download
    result,         \* the error Download returned
    probes,         \* per input position: the probe goroutine and its locals
    chanClosed,     \* srcFileMetasChan is closed
    probeErr,       \* first error of the probe errgroup (its context is done iff set)
    srcFileMetas,   \* the collected descriptors, in arrival order
    fileMetadata,   \* srcFileMetas[0].fileMetadata
    sortedUrls,     \* downloadFileContents' sourceUrls
    chunkSize,      \* downloadFileContents' chunkSize
    offset,         \* loop variable of the chunk loop
    idx,            \* loop variable i of the chunk loop
    tasks,          \* per chunk index: the chunk goroutine
    fetchErr        \* first error of the fetch errgroup (its context is done iff set)

vars == <<sourceUrls, connections, checkETag, server, destInit, dest, staging,
          stagingOpen, pc, result, probes, chanClosed, probeErr, srcFileMetas,
          fileMetadata, sortedUrls, chunkSize, offset, idx, tasks, fetchErr>>

cfgVars == <<sourceUrls, connections, checkETag, server, destInit>>

probeVars == <<probes, chanClosed, probeErr, srcFileMetas>>

fetchVars == <<sortedUrls, chunkSize, offset, idx, tasks, fetchErr>>

NoMeta == [size |-> 0, contentType |-> "", eTag |-> <<>>]

\* tried: the indices of sourceUrls the goroutine has called fetchChunk with
IdleTask ==
    [st |-> "idle", offset |-> 0, limit |-> 0, srcIdxInitAttempt |-> 0,
     j |-> -1, url |-> 0, late |-> FALSE, tried |-> <<>>, chunk |-> <<>>,
     res |-> NoResult]

\* the ETag header of a server that sends none, that sends the quoted MD5 of
\* its file, and that sends another quoted value
NoETag == <<>>

OwnETag(file) == <<Quote, MD5Sum(file), Quote>>

OtherETag == <<Quote, 1, Quote>>

\* cooperating servers: all hold the same file of S bytes and send its MD5;
\* each answers a HEAD request fast or slowly
Cooperating(S) ==
    { [file |-> FileA(S), contentType |-> "text/plain",
       eTag |-> OwnETag(FileA(S)), latencies |-> {1, 2}] }

\* arbitrary servers: one of two files of S bytes with different types, or a
\* longer file; any of the three ETag headers; all answer equally fast
Arbitrary(S) ==
    UNION { { [file |-> f.file, contentType |-> f.contentType, eTag |-> e,
               latencies |-> {1}] :
                e \in {NoETag, OwnETag(f.file), OtherETag} } :
            f \in { [file |-> FileA(S), contentType |-> "text/plain"],
                    [file |-> FileB(S), contentType |-> "image/png"],
                    [file |-> FileA(S + 1), contentType |-> "text/plain"] } }

\* the state when Download is called, the inputs drawn from the given sets
InitWith(sizes, conns, arbitrary, dests) ==
    /\ \E n \in 0..MaxUrls : sourceUrls = [k \in 1..n |-> k]
    /\ connections \in conns
    /\ checkETag \in BOOLEAN
    /\ \E S \in sizes : server \in [1..Len(sourceUrls) ->
                                IF arbitrary THEN Arbitrary(S) ELSE Cooperating(S)]
    /\ destInit \in dests
    /\ dest = destInit
    /\ staging = Absent
    /\ stagingOpen = FALSE
    /\ pc = "start"
    /\ result = NoResult
    /\ probes = <<>>
    /\ chanClosed = FALSE
    /\ probeErr = Nil
    /\ srcFileMetas = <<>>
    /\ fileMetadata = NoMeta
    /\ sortedUrls = <<>>
    /\ chunkSize = 0
    /\ offset = 0
    /\ idx = 0
    /\ tasks = [i \in 0..(MaxChunks - 1) |-> IdleTask]
    /\ fetchErr = Nil

\* cooperating sources, every file size and connection count
Init == InitWith(0..MaxSize, 1..MaxConn, FALSE, {Absent})

\* arbitrary sources, a file of one byte fetched over one connection
InitSources == InitWith({1}, {1}, TRUE, {Absent, OldDest})

\* cooperating sources, a file of one byte fetched over one connection
InitProbes == InitWith({1}, {1}, FALSE, {Absent})

\* ---------------------------------------------------------------- probes
\* the answers a HEAD request to url may get: a failure of the transport
\* (which a cancelled context is too), a status that is not 200, no
\* Content-Length, or the server's headers with a usable or an unusable
\* Accept-Ranges, after one of the server's latencies
HeadFailures ==
    { [transportErr |-> TRUE,  status |-> 0,   contentLength |-> -1, acceptRanges |-> ""],
      [transportErr |-> FALSE, status |-> 404, contentLength |-> 0,  acceptRanges |-> ""],
      [transportErr |-> FALSE, status |-> 200, contentLength |-> -1, acceptRanges |-> "bytes"] }

HeadResponses(url) ==
    { [transportErr |-> f.transportErr, status |-> f.status,
       contentLength |-> f.contentLength, acceptRanges |-> f.acceptRanges,
       contentType |-> "", eTag |-> <<>>, latency |-> 1] : f \in HeadFailures }
    \cup
    { [transportErr |-> FALSE, status |-> 200,
       contentLength |-> Len(server[url].file), acceptRanges |-> ar,
       contentType |-> server[url].contentType, eTag |-> e, latency |-> l] :
         ar \in {"", "none", "None", "bytes"}, e \in {server[url].eTag},
         l \in server[url].latencies }

\* the body of the probe goroutine after httpClient.Do: the error it returns,
\* or the descriptor it sends
ProbeOutcome(url, resp) ==
    IF resp.transportErr THEN [err |-> ErrTransport]
    ELSE IF resp.status # 200 THEN [err |-> ErrStatus]
    ELSE IF resp.contentLength = -1 THEN [err |-> ErrUnknownContentLength]
    ELSE IF resp.acceptRanges = "" \/ resp.acceptRanges = "none"
        THEN [err |-> ErrPartialRequestUnsupported]
    ELSE [err |-> Nil,
          meta |-> [url |-> url, estLatency |-> resp.latency,
                    size |-> resp.contentLength,
                    contentType |-> "",
                    eTag |-> Trim(resp.eTag)]]

\* errgroup: the first error returned by a goroutine is kept
LastErr(cur, new) == new

FirstErr(cur, new) == IF cur = Nil THEN new ELSE cur

\* Download, line 47
NoSourceUrlsAlways(urls) == FALSE

NoSourceUrls(urls) == Len(urls) = 0

\* Download entry; fetchFileMetadataFromSources up to the start of the collector
DownloadStart ==
    /\ pc = "start"
    /\ IF NoSourceUrls(sourceUrls)
       THEN /\ result' = ErrNoSourceUrls
            /\ pc' = "done"
            /\ UNCHANGED probes
       ELSE /\ probes' = [k \in 1..Len(sourceUrls) |->
                            [st |-> "head", acceptRanges |-> "", meta |-> NoMeta]]
            /\ pc' = "probe"
            /\ UNCHANGED result
    /\ UNCHANGED <<cfgVars, dest, staging, stagingOpen, chanClosed, probeErr,
                   srcFileMetas, fileMetadata, fetchVars>>

\* a probe goroutine gets the answer to its HEAD request
ProbeHead(k) ==
    /\ pc = "probe"
    /\ k \in DOMAIN probes
    /\ probes[k].st = "head"
    /\ \E resp \in HeadResponses(sourceUrls[k]) :
         LET out == ProbeOutcome(sourceUrls[k], resp) IN
         IF out.err # Nil
         THEN /\ probes' = [probes EXCEPT ![k].st = "failed"]
              /\ probeErr' = FirstErr(probeErr, out.err)
         ELSE /\ probes' = [probes EXCEPT ![k].st = "send",
                                           ![k].acceptRanges = resp.acceptRanges,
                                           ![k].meta = out.meta]
              /\ UNCHANGED probeErr
    /\ UNCHANGED <<cfgVars, dest, staging, stagingOpen, pc, result, chanClosed,
                   srcFileMetas, fileMetadata, fetchVars>>

\* the send on the unbuffered channel meets the collector's receive
ProbeSend(k) ==
    /\ pc = "probe"
    /\ k \in DOMAIN probes
    /\ probes[k].st = "send"
    /\ ~chanClosed
    /\ srcFileMetas' = Append(srcFileMetas, probes[k].meta)
    /\ probes' = [probes EXCEPT ![k] = [st |-> "ok", acceptRanges |-> "",
                                         meta |-> NoMeta]]
    /\ UNCHANGED <<cfgVars, dest, staging, stagingOpen, pc, result, chanClosed,
                   probeErr, fileMetadata, fetchVars>>

\* line 146: eg.Wait returns when every probe goroutine has returned
ProbesReturnedEarly(ps) == TRUE

ProbesReturned(ps) == \A k \in DOMAIN ps : ps[k].st \in {"ok", "failed"}

\* the goroutine of lines 145-148: eg.Wait, then close
ProbeClose ==
    /\ pc = "probe"
    /\ ~chanClosed
    /\ ProbesReturned(probes)
    /\ chanClosed' = TRUE
    /\ UNCHANGED <<cfgVars, dest, staging, stagingOpen, pc, result, probes,
                   probeErr, srcFileMetas, fileMetadata, fetchVars>>

\* Download, lines 52-54
ProbeErrIgnored(err) == FALSE

ProbeErrReturned(err) == err # Nil

\* the collector's range loop ends; fetchFileMetadataFromSources returns
ProbeJoin ==
    /\ pc = "probe"
    /\ chanClosed
    /\ IF ProbeErrReturned(probeErr)
       THEN /\ result' = probeErr
            /\ pc' = "done"
       ELSE /\ pc' = "reconcile"
            /\ UNCHANGED result
    /\ UNCHANGED <<cfgVars, dest, staging, stagingOpen, probeVars, fileMetadata,
                   fetchVars>>

\* ---------------------------------------------------------------- reconcile
\* helpers.go: the loop over adjacent descriptors returns false at the first
\* pair that differs
allSourcesMatchFileMetadata(metas, checkTag) ==
    \A i \in 2..Len(metas) :
        /\ ~(metas[i - 1].size # metas[i].size
             \/ metas[i - 1].contentType # metas[i].contentType)
        /\ ~(checkTag /\ metas[i - 1].eTag # metas[i].eTag)

\* sort.Slice on fewer than 12 elements is an insertion sort: an element moves
\* left while it is strictly less than its left neighbour
RECURSIVE InsertByLatency(_, _)
InsertByLatency(sorted, m) ==
    IF sorted # <<>> /\ m.estLatency < sorted[Len(sorted)].estLatency
    THEN Append(InsertByLatency(SubSeq(sorted, 1, Len(sorted) - 1), m),
                sorted[Len(sorted)])
    ELSE Append(sorted, m)

RECURSIVE SortByLatency(_)
SortByLatency(metas) ==
    IF metas = <<>> THEN <<>>
    ELSE InsertByLatency(SortByLatency(SubSeq(metas, 1, Len(metas) - 1)),
                         metas[Len(metas)])

sourceUrlsUnsorted(metas) == [k \in 1..Len(metas) |-> metas[k].url]

sourceUrlsSortedByEstLatency(metas) ==
    LET sorted == SortByLatency(metas) IN
    [k \in 1..Len(sorted) |-> sorted[k].url]

\* Download, lines 56-60
Reconcile ==
    /\ pc = "reconcile"
    /\ IF ~allSourcesMatchFileMetadata(srcFileMetas, checkETag)
       THEN /\ result' = ErrSourcesFileMismatch
            /\ pc' = "done"
            /\ UNCHANGED fileMetadata
       ELSE IF Len(srcFileMetas) = 0
       THEN /\ result' = PanicIndex
            /\ pc' = "done"
            /\ UNCHANGED fileMetadata
       ELSE /\ fileMetadata' = [size |-> srcFileMetas[1].size,
                                contentType |-> srcFileMetas[1].contentType,
                                eTag |-> srcFileMetas[1].eTag]
            /\ pc' = "create"
            /\ UNCHANGED result
    /\ UNCHANGED <<cfgVars, dest, staging, stagingOpen, probeVars, fetchVars>>

\* Download, lines 62-70: os.Create truncates; the argument of
\* downloadFileContents is the list of URLs sorted from a copy of srcFileMetas
CreateStaging ==
    /\ pc = "create"
    /\ \/ /\ staging' = File(<<>>)
          /\ stagingOpen' = TRUE
          /\ sortedUrls' = sourceUrlsSortedByEstLatency(srcFileMetas)
          /\ pc' = "plan"
          /\ UNCHANGED result
       \/ /\ result' = ErrCreate
          /\ pc' = "done"
          /\ UNCHANGED <<staging, stagingOpen, sortedUrls>>
    /\ UNCHANGED <<cfgVars, dest, probeVars, fileMetadata, chunkSize,
                   offset, idx, tasks, fetchErr>>

\* downloadFileContents up to its loop; Download does not read srcFileMetas
\* again
PlanChunks ==
    /\ pc = "plan"
    /\ chunkSize' = fileMetadata.size \div connections
    /\ srcFileMetas' = <<>>
    /\ pc' = "fetch"
    /\ UNCHANGED <<cfgVars, dest, staging, stagingOpen, result, probes,
                   chanClosed, probeErr, fileMetadata, sortedUrls, offset, idx,
                   tasks, fetchErr>>

\* ---------------------------------------------------------------- chunks
\* the chunk goroutines that have started and not returned
Active == {i \in DOMAIN tasks : tasks[i].st \in {"get", "write"}}

\* eg.SetLimit(connections): eg.Go blocks while the limit is reached
GoMayStartUnlimited(active) == TRUE

GoMayStart(active) == active < connections

\* line 169
ChunkLimit(off, size, fsize) == Min(off + size, fsize)

\* line 168: the index of the source a chunk tries first
SrcIdxInitAttemptZero(i, n) == 0

SrcIdxInitAttempt(i, n) == i % n

\* line 167: the condition of the chunk loop
LoopContinuesAtEnd(off, fsize) == off <= fsize

LoopContinues(off, fsize) == off < fsize

\* one iteration of the loop of downloadFileContents: eg.Go starts the
\* goroutine, which issues its first GET
SpawnChunk ==
    /\ pc = "fetch"
    /\ LoopContinues(offset, fileMetadata.size)
    /\ idx < MaxChunks
    /\ GoMayStart(Cardinality(Active))
    /\ LET prim == SrcIdxInitAttempt(idx, Len(sortedUrls)) IN
       tasks' = [tasks EXCEPT ![idx] =
                   [st |-> "get", offset |-> offset,
                    limit |-> ChunkLimit(offset, chunkSize, fileMetadata.size),
                    srcIdxInitAttempt |-> prim, j |-> -1,
                    url |-> sortedUrls[prim + 1], late |-> fetchErr # Nil,
                    tried |-> <<prim>>, chunk |-> <<>>, res |-> NoResult]]
    /\ offset' = offset + chunkSize
    /\ idx' = idx + 1
    /\ UNCHANGED <<cfgVars, dest, staging, stagingOpen, pc, result, probeVars,
                   fileMetadata, sortedUrls, chunkSize, fetchErr>>

\* fetchChunk, line 206: the Range header names the first and the last byte
RangeHeader(start, end) == [first |-> start, last |-> end]

\* the server's 206 answer to a Range header: the bytes of the range, which
\* ends at the end of the file at the latest
RangeBody(file, range) ==
    SubSeq(file, range.first + 1, Min(range.last, Len(file) - 1) + 1)

\* the index the retry loop of lines 178-184 tries after index j:
\* the next one that is not the primary's; Len(sortedUrls) when there is none
NextRetryIdxNoSkip(j, prim) == j + 1

NextRetryIdx(j, prim) ==
    LET cand == {x \in (j + 1)..(Len(sortedUrls) - 1) : x # prim} IN
    IF cand = {} THEN Len(sortedUrls)
    ELSE CHOOSE x \in cand : \A y \in cand : x <= y

\* a GET of a chunk goroutine is answered 206 and the body is read
FetchOk(i) ==
    /\ pc = "fetch"
    /\ tasks[i].st = "get"
    /\ ~tasks[i].late
    /\ tasks[i].offset < Len(server[tasks[i].url].file)
    /\ tasks' = [tasks EXCEPT ![i].st = "write",
                              ![i].chunk = RangeBody(server[tasks[i].url].file,
                                   RangeHeader(tasks[i].offset, tasks[i].limit))]
    /\ UNCHANGED <<cfgVars, dest, staging, stagingOpen, pc, result, probeVars,
                   fileMetadata, sortedUrls, chunkSize, offset, idx, fetchErr>>

\* a GET of a chunk goroutine fails (transport, status, or context done):
\* the next source is tried, or the goroutine returns
FetchFail(i) ==
    /\ pc = "fetch"
    /\ tasks[i].st = "get"
    /\ LET nxt == NextRetryIdx(tasks[i].j, tasks[i].srcIdxInitAttempt) IN
       IF nxt < Len(sortedUrls)
       THEN /\ tasks' = [tasks EXCEPT ![i].j = nxt,
                                      ![i].url = sortedUrls[nxt + 1],
                                      ![i].late = fetchErr # Nil,
                                      ![i].tried = Append(@, nxt)]
            /\ UNCHANGED fetchErr
       ELSE /\ tasks' = [tasks EXCEPT ![i].st = "ret",
                                      ![i].res = ErrFailedChunkDownloadAllSources]
            /\ fetchErr' = FirstErr(fetchErr, ErrFailedChunkDownloadAllSources)
    /\ UNCHANGED <<cfgVars, dest, staging, stagingOpen, pc, result, probeVars,
                   fileMetadata, sortedUrls, chunkSize, offset, idx>>

\* line 192: the chunk is written at its offset and the goroutine returns
WriteOk(i) ==
    /\ pc = "fetch"
    /\ tasks[i].st = "write"
    /\ staging' = File(WriteAt(staging.bytes, tasks[i].offset, tasks[i].chunk))
    /\ tasks' = [tasks EXCEPT ![i].st = "ret", ![i].res = Nil]
    /\ UNCHANGED <<cfgVars, dest, stagingOpen, pc, result, probeVars,
                   fileMetadata, sortedUrls, chunkSize, offset, idx, fetchErr>>

\* line 192: the write fails and the goroutine returns the error
WriteFail(i) ==
    /\ pc = "fetch"
    /\ tasks[i].st = "write"
    /\ tasks' = [tasks EXCEPT ![i].st = "ret", ![i].res = ErrWrite]
    /\ fetchErr' = FirstErr(fetchErr, ErrWrite)
    /\ UNCHANGED <<cfgVars, dest, staging, stagingOpen, pc, result, probeVars,
                   fileMetadata, sortedUrls, chunkSize, offset, idx>>

\* Download, lines 72-74
FetchErrIgnored(err) == FALSE

FetchErrReturned(err) == err # Nil

\* line 197: eg.Wait returns when every goroutine of the group has returned
WaitReturnsEarly(active) == TRUE

WaitReturns(active) == active = {}

\* the loop of downloadFileContents has ended and eg.Wait returns
FetchJoin ==
    /\ pc = "fetch"
    /\ ~LoopContinues(offset, fileMetadata.size)
    /\ WaitReturns(Active)
    /\ IF FetchErrReturned(fetchErr)
       THEN /\ result' = fetchErr
            /\ pc' = "done"
            /\ stagingOpen' = FALSE
       ELSE /\ pc' = "verify"
            /\ UNCHANGED <<result, stagingOpen>>
    /\ UNCHANGED <<cfgVars, dest, staging, probeVars, fileMetadata, fetchVars>>

\* ---------------------------------------------------------------- publish
\* Download, line 82
ETagDiffersNever(md5Hash, eTag) == FALSE

ETagDiffers(md5Hash, eTag) == md5Hash # eTag

\* Download, lines 76-85
Verify ==
    /\ pc = "verify"
    /\ IF checkETag /\ Len(fileMetadata.eTag) > 0
          /\ ETagDiffers(getMD5Hash(staging.bytes), fileMetadata.eTag)
       THEN /\ result' = ErrETagMismatch
            /\ pc' = "done"
            /\ stagingOpen' = FALSE
       ELSE /\ pc' = "rename"
            /\ UNCHANGED <<result, stagingOpen>>
    /\ UNCHANGED <<cfgVars, dest, staging, probeVars, fileMetadata, fetchVars>>

\* os.Rename(old, new): the file leaves the old path and replaces the new one
RenameAsCopy(old, new) == [old |-> old, new |-> old]

Rename(old, new) == [old |-> Absent, new |-> old]

\* os.Rename that returns an error: both paths are as they were
RenameFailedHalfway(old, new) == [old |-> old, new |-> Absent]

RenameFailed(old, new) == [old |-> old, new |-> new]

\* Download, lines 87-93
Publish ==
    /\ pc = "rename"
    /\ \/ /\ staging' = Rename(staging, dest).old
          /\ dest' = Rename(staging, dest).new
          /\ result' = Nil
       \/ /\ staging' = RenameFailed(staging, dest).old
          /\ dest' = RenameFailed(staging, dest).new
          /\ result' = ErrRename
    /\ pc' = "done"
    /\ stagingOpen' = FALSE
    /\ UNCHANGED <<cfgVars, probeVars, fileMetadata, fetchVars>>

\* ---------------------------------------------------------------- system
Next ==
    \/ DownloadStart
    \/ \E k \in 1..MaxUrls : ProbeHead(k)
    \/ \E k \in 1..MaxUrls : ProbeSend(k)
    \/ ProbeClose
    \/ ProbeJoin
    \/ Reconcile
    \/ CreateStaging
    \/ PlanChunks
    \/ SpawnChunk
    \/ \E i \in 0..(MaxChunks - 1) : FetchOk(i)
    \/ \E i \in 0..(MaxChunks - 1) : FetchFail(i)
    \/ \E i \in 0..(MaxChunks - 1) : WriteOk(i)
    \/ \E i \in 0..(MaxChunks - 1) : WriteFail(i)
    \/ FetchJoin
    \/ Verify
    \/ Publish

Spec == Init /\ [][Next]_vars

SpecSources == InitSources /\ [][Next]_vars

\* every request is answered or times out (http.Client.Timeout) and the Go
\* scheduler runs a goroutine that can take a step
Fairness == WF_vars(Next)

SpecProbes == InitProbes /\ [][Next]_vars /\ Fairness

\* ---------------------------------------------------------------- claims
Started == {i \in DOMAIN tasks : tasks[i].st # "idle"}

SameFile == \A u, v \in DOMAIN server : server[u].file = server[v].file

\* the inclusive byte range a started chunk goroutine asks for
Requested(i) ==
    LET r == RangeHeader(tasks[i].offset, tasks[i].limit) IN r.first..r.last

\* C1: when Download returns success and all sources serve the same file,
\* the destination holds exactly file_size bytes, each equal to the source's
\* byte at its position.
C1_DestinationEqualsSource ==
    (result = Nil /\ SameFile) =>
        /\ dest.exists
        /\ Len(dest.bytes) = fileMetadata.size
        /\ \A p \in 1..fileMetadata.size :
               \A u \in DOMAIN server : dest.bytes[p] = server[u].file[p]

\* a success over several chunks, one of which failed on its primary source
C1_Witness ==
    /\ result = Nil
    /\ idx >= 2
    /\ \E i \in Started : tasks[i].j >= 0

\* C2: with an empty URL list Download returns ErrNoSourceUrls; no HEAD and
\* no GET is issued and the staging file is not created.
C2_EmptyUrlList ==
    Len(sourceUrls) = 0 =>
        /\ probes = <<>>
        /\ Started = {}
        /\ staging = Absent
        /\ pc = "done" => result = ErrNoSourceUrls

C2_Witness == Len(sourceUrls) = 0 /\ pc = "done" /\ result = ErrNoSourceUrls

\* C3: when every probe succeeded and two of the sources differ in size or in
\* content type, or in ETag while check_integrity is on, Download returns
\* ErrSourcesFileMismatch before the staging file is created and before any GET.
MetadataDiffers(u, v) ==
    \/ Len(server[u].file) # Len(server[v].file)
    \/ server[u].contentType # server[v].contentType
    \/ checkETag /\ Trim(server[u].eTag) # Trim(server[v].eTag)

C3_MismatchRejected ==
    ( /\ pc \notin {"start", "probe"}
      /\ probeErr = Nil
      /\ \E u, v \in DOMAIN server : MetadataDiffers(u, v) ) =>
        /\ pc \in {"reconcile", "done"}
        /\ pc = "done" => result = ErrSourcesFileMismatch
        /\ staging = Absent
        /\ Started = {}

\* C4: when a probe fails, Download returns an error: it does not go on with
\* the sources that answered, creates no staging file, issues no GET and
\* leaves the destination as it was.
C4_ProbeFailureAborts ==
    (\E k \in DOMAIN probes : probes[k].st = "failed") =>
        /\ pc \in {"probe", "done"}
        /\ pc = "done" => result = probeErr /\ result # Nil
        /\ staging = Absent
        /\ Started = {}
        /\ dest = destInit

\* one probe failed, another had succeeded, and Download has returned
C4_Witness ==
    /\ pc = "done"
    /\ \E k \in DOMAIN probes : probes[k].st = "failed"
    /\ \E k \in DOMAIN probes : probes[k].st = "ok"

\* C5 as stated: when some chunk failed on every source, Download returns
\* ErrFailedChunkDownloadAllSources and the staging file is not renamed.
Exhausted == {i \in DOMAIN tasks : tasks[i].res = ErrFailedChunkDownloadAllSources}

C5_ExhaustedIsReturned ==
    (pc = "done" /\ Exhausted # {}) =>
        /\ result = ErrFailedChunkDownloadAllSources
        /\ dest = destInit

\* C5 as amended: when some chunk failed on every source, Download goes no
\* further than the fetch scope and what it returns is an error, the staging
\* file is not renamed; the error is ErrFailedChunkDownloadAllSources unless the
\* write of a chunk failed, and then it is one of the two. With a single source
\* no chunk goroutine retries.
C5_ExhaustedIsFatal ==
    /\ Exhausted # {} =>
        /\ pc \in {"fetch", "done"}
        /\ fetchErr # Nil
        /\ dest = destInit
        /\ pc = "done" =>
             /\ result \in {ErrFailedChunkDownloadAllSources, ErrWrite}
             /\ (\A i \in DOMAIN tasks : tasks[i].res # ErrWrite) =>
                    result = ErrFailedChunkDownloadAllSources
    /\ Len(sortedUrls) = 1 => \A i \in Started : tasks[i].j = -1

\* Download returned the exhaustion of a chunk that had two sources to try
C5_Witness ==
    /\ pc = "done"
    /\ result = ErrFailedChunkDownloadAllSources
    /\ Len(sortedUrls) >= 2
    /\ Exhausted # {}

\* C6: at most `connections` chunk goroutines have started and not returned.
C6_InFlightAtMostConnections == Cardinality(Active) <= connections

\* the limit is reached while the loop has another chunk to start
C6_Witness ==
    /\ pc = "fetch"
    /\ connections >= 2
    /\ Cardinality(Active) = connections
    /\ offset < fileMetadata.size

\* C7: the byte ranges the chunk goroutines ask for partition
\* [0, file_size-1]: none reaches past file_size-1, no two share a byte, and
\* once all are started they cover every byte.
C7_RangesPartition ==
    fileMetadata.size >= 1 =>
        /\ \A i \in Started : \A p \in Requested(i) : p <= fileMetadata.size - 1
        /\ \A i, k \in Started : i # k => Requested(i) \cap Requested(k) = {}
        /\ pc \in {"verify", "rename", "done"} /\ Started # {} =>
               UNION {Requested(i) : i \in Started} = 0..(fileMetadata.size - 1)

\* C8: with 0 < file_size < connections the planning loop yields finitely
\* many chunks covering [0, file_size-1] exactly: each iteration advances the
\* offset, and no more chunks are planned than the file has bytes.
C8_DegeneratePlanIsFinite ==
    ( /\ pc = "fetch"
      /\ 0 < fileMetadata.size
      /\ fileMetadata.size < connections ) =>
        /\ idx > 0 => offset > 0
        /\ idx <= fileMetadata.size

\* C9: with check_integrity on and a non-empty tag, Download gets past the
\* verification, and succeeds, only with a staged file whose digest equals
\* the tag; when the digest differs it returns ErrETagMismatch and the staging
\* file stays where it is, the destination as it was.
C9_IntegrityVerified ==
    (checkETag /\ Len(fileMetadata.eTag) > 0) =>
        /\ pc = "rename" => getMD5Hash(staging.bytes) = fileMetadata.eTag
        /\ result = ErrRename => getMD5Hash(staging.bytes) = fileMetadata.eTag
        /\ result = Nil => getMD5Hash(dest.bytes) = fileMetadata.eTag
        /\ result = ErrETagMismatch =>
             /\ getMD5Hash(staging.bytes) # fileMetadata.eTag
             /\ staging.exists
             /\ dest = destInit

\* the digest of the staged file differed from the advertised tag
C9_Witness ==
    /\ checkETag
    /\ pc = "done"
    /\ result = ErrETagMismatch
    /\ staging.exists

\* C10: after a successful Download no file is left at the staging path and
\* the destination exists.
C10_NoStagingAfterSuccess ==
    result = Nil => ~staging.exists /\ dest.exists

\* a success that published a file of several bytes
C10_Witness == result = Nil /\ dest.exists /\ Len(dest.bytes) >= 2

\* C11: when chunk goroutines fail, the fetch scope keeps the error of the
\* first one that returned an error, which is chunk-download-exhausted or a
\* write error; the errors of the goroutines that return later, among them
\* those that ran with the scope cancelled, never replace it, and Download
\* returns it.
Failed == {i \in DOMAIN tasks : tasks[i].res \notin {NoResult, Nil}}

FirstErrorKept ==
    /\ fetchErr \in {Nil, ErrFailedChunkDownloadAllSources, ErrWrite}
    /\ (fetchErr = Nil) <=> (Failed = {})
    /\ fetchErr # Nil => pc \in {"fetch", "done"}
    /\ (pc = "done" /\ fetchErr # Nil) => result = fetchErr

FirstErrorKeptStep ==
    /\ fetchErr # Nil => fetchErr' = fetchErr
    /\ (fetchErr = Nil /\ fetchErr' # Nil) =>
          \E i \in DOMAIN tasks : /\ tasks[i].res = NoResult
                                  /\ tasks'[i].res = fetchErr'

C11_FirstFatalErrorReturned == []FirstErrorKept /\ [][FirstErrorKeptStep]_vars

\* Download returned a write error although a goroutine that ran with the
\* scope cancelled returned chunk-download-exhausted after it
C11_Witness ==
    /\ pc = "done"
    /\ result = ErrWrite
    /\ \E i \in Started :
         tasks[i].late /\ tasks[i].res = ErrFailedChunkDownloadAllSources

\* C12: the prioritized list holds the URL of every descriptor exactly once,
\* in an order of non-decreasing estimated latency, and the descriptor list
\* is the same after the call as before it.
Bijections(n) ==
    {f \in [1..n -> 1..n] : \A a, b \in 1..n : a # b => f[a] # f[b]}

IsSortedPermutation(urls, metas) ==
    /\ Len(urls) = Len(metas)
    /\ \E f \in Bijections(Len(metas)) :
         /\ \A k \in 1..Len(metas) : urls[k] = metas[f[k]].url
         /\ \A a, b \in 1..Len(metas) :
              a < b => metas[f[a]].estLatency <= metas[f[b]].estLatency

PrioritizeStep ==
    (pc = "create" /\ pc' = "plan") =>
        /\ srcFileMetas' = srcFileMetas
        /\ IsSortedPermutation(sortedUrls', srcFileMetas)

C12_PrioritizedIsSortedPermutation ==
    /\ [](pc = "plan" => IsSortedPermutation(sortedUrls, srcFileMetas))
    /\ [][PrioritizeStep]_vars

\* the descriptors arrived slowest first, so the sort had to reorder them
C12_Witness ==
    /\ pc = "plan"
    /\ Len(srcFileMetas) >= 2
    /\ srcFileMetas[1].estLatency > srcFileMetas[2].estLatency

\* C13: the first GET of chunk i goes to sortedUrls[i mod len(sortedUrls)],
\* and while that attempt has not failed no other source has been tried.
C13_PrimaryIsRoundRobin ==
    \A i \in Started :
        LET prim == i % Len(sortedUrls) IN
        /\ tasks[i].srcIdxInitAttempt = prim
        /\ tasks[i].tried[1] = prim
        /\ tasks[i].j = -1 =>
             /\ tasks[i].tried = <<prim>>
             /\ tasks[i].url = sortedUrls[prim + 1]

\* with two sources chunk 1 asks the second one first and chunk 2 is back
\* at the first
C13_Witness ==
    /\ Len(sortedUrls) = 2
    /\ tasks[1].st = "get" /\ tasks[1].j = -1 /\ tasks[1].url = sortedUrls[2]
    /\ tasks[2].st = "get" /\ tasks[2].j = -1 /\ tasks[2].url = sortedUrls[1]

C15_CancellationCheckedBeforeFallback ==
    \A i \in Started :
        /\ ~(tasks[i].late /\ tasks[i].j >= 0)
        /\ tasks[i].late => tasks[i].res # ErrFailedChunkDownloadAllSources

\* C16: the digest and the rename come after every chunk goroutine has
\* returned: from the verification on no goroutine is running, no goroutine
\* takes a step, and the staging file changes only by being renamed.
AllChunksReturned ==
    pc \in {"verify", "rename", "done"} =>
        /\ Active = {}
        /\ \A i \in Started : tasks[i].st = "ret"

NoChunkStepAfterJoin ==
    pc \in {"verify", "rename", "done"} =>
        /\ tasks' = tasks
        /\ staging' = staging \/ (pc = "rename" /\ staging' = Absent)

C16_DigestAndRenameAfterAllChunks ==
    []AllChunksReturned /\ [][NoChunkStepAfterJoin]_vars

\* the digest is about to be computed over a file written by several chunks
C16_Witness ==
    /\ pc = "verify"
    /\ checkETag
    /\ Cardinality(Started) >= 2
    /\ \A i \in Started : tasks[i].res = Nil

\* C17: when the digest is computed and when the staging file is renamed,
\* the staging file has been closed.
C17_ClosedBeforeDigestAndRename ==
    pc \in {"verify", "rename"} => ~stagingOpen

\* C18: with file_size >= connections the loop plans exactly `connections`
\* chunks, chunk i at offset i * (file_size / connections), and the last one
\* ends at file_size - 1.
C18_ExactlyConnectionsChunks ==
    (pc \in {"verify", "rename"} /\ fileMetadata.size >= connections) =>
        /\ Started = 0..(connections - 1)
        /\ \A i \in Started :
             tasks[i].offset = i * (fileMetadata.size \div connections)
        /\ \A i \in Started :
             i = connections - 1 =>
                RangeHeader(tasks[i].offset, tasks[i].limit).last
                    = fileMetadata.size - 1

\* C19: sources of equal estimated latency stand in the prioritized list in
\* the order of the list passed to Download (a URL is its position there).
EstLatencyOf(url) ==
    LET k == CHOOSE k \in 1..Len(srcFileMetas) : srcFileMetas[k].url = url
    IN srcFileMetas[k].estLatency

C19_TiesKeepInputOrder ==
    pc = "plan" =>
        \A a, b \in 1..Len(sortedUrls) :
            (a < b /\ EstLatencyOf(sortedUrls[a]) = EstLatencyOf(sortedUrls[b]))
                => sortedUrls[a] < sortedUrls[b]

\* C20: a 200 response with a known length whose Accept-Ranges is empty or
\* is `none` in any letter case is rejected with
\* ErrPartialRequestUnsupported, and no probe goroutine sends a descriptor
\* for it.
NoRanges == {"", "none", "None"}

C20_NoRangesRejected ==
    /\ \A k \in DOMAIN probes :
         \A resp \in HeadResponses(sourceUrls[k]) :
             ( /\ ~resp.transportErr
               /\ resp.status = 200
               /\ resp.contentLength # -1
               /\ resp.acceptRanges \in NoRanges ) =>
                 ProbeOutcome(sourceUrls[k], resp).err = ErrPartialRequestUnsupported
    /\ \A k \in DOMAIN probes :
         probes[k].st = "send" => probes[k].acceptRanges \notin NoRanges

\* C21: when the reconciled size is 0 no chunk goroutine is started and the
\* fetch scope returns no error; Download fails only where creating or
\* renaming the file fails or the tag is not the digest of the empty content;
\* on success the destination exists and is empty, and with check_integrity
\* on and that tag the digest of the empty staging file passes.
Reconciled ==
    \/ pc \in {"create", "plan", "fetch", "verify", "rename"}
    \/ /\ pc = "done"
       /\ probeErr = Nil
       /\ result \notin {ErrNoSourceUrls, ErrSourcesFileMismatch, PanicIndex}

EmptyDigest == getMD5Hash(<<>>)

C21_EmptyFileSucceeds ==
    (Reconciled /\ fileMetadata.size = 0) =>
        /\ Started = {}
        /\ fetchErr = Nil
        /\ pc = "done" => result \in {Nil, ErrCreate, ErrRename, ErrETagMismatch}
        /\ result = Nil => dest = File(<<>>)
        /\ result = ErrETagMismatch =>
             checkETag /\ fileMetadata.eTag \notin {<<>>, EmptyDigest}
        /\ (checkETag /\ fileMetadata.eTag = EmptyDigest /\ pc = "rename") =>
             staging = File(<<>>)

\* an empty file was published after its digest was compared with the tag
C21_Witness ==
    /\ result = Nil
    /\ Len(sourceUrls) >= 1
    /\ fileMetadata.size = 0
    /\ checkETag
    /\ fileMetadata.eTag = EmptyDigest
    /\ dest = File(<<>>)

\* C22: in the probe phase every probe goroutine that got a usable answer
\* hands its descriptor to the collector, the channel is closed only when
\* all probe goroutines have returned, the collector then ends, the list it
\* returns holds one descriptor for each probe that succeeded, and the error
\* returned is that of the first probe that failed, or none.
Sent == {k \in DOMAIN probes : probes[k].st = "ok"}

ProbeResultsComplete ==
    /\ chanClosed => \A k \in DOMAIN probes : probes[k].st \in {"ok", "failed"}
    /\ (pc \notin {"start", "probe"} /\ probes # <<>>) => chanClosed
    /\ (probeErr = Nil) <=> (\A k \in DOMAIN probes : probes[k].st # "failed")
    /\ (pc \in {"probe", "reconcile", "create", "plan"}
            \/ (pc = "done" /\ probeErr # Nil)) =>
          /\ Len(srcFileMetas) = Cardinality(Sent)
          /\ \A k \in Sent :
               Cardinality({a \in 1..Len(srcFileMetas) :
                               srcFileMetas[a].url = sourceUrls[k]}) = 1
    /\ pc = "reconcile" =>
          /\ probeErr = Nil
          /\ Len(srcFileMetas) = Len(sourceUrls)
    /\ (pc = "done" /\ probeErr # Nil) => result = probeErr

ProbeErrKeptStep == probeErr # Nil => probeErr' = probeErr

ProbePhaseEnds == (pc = "probe") ~> (pc \in {"reconcile", "done"})

C22_ProbePhaseCompletes ==
    []ProbeResultsComplete /\ [][ProbeErrKeptStep]_vars /\ ProbePhaseEnds

\* one probe failed and the descriptor of the other was still received
C22_Witness ==
    /\ pc = "done"
    /\ chanClosed
    /\ Len(srcFileMetas) = 1
    /\ \E k \in DOMAIN probes : probes[k].st = "failed"
    /\ Sent # {}

\* C23: when Download returns an error the destination is as it was when
\* Download was called; the staging file is absent when the failure came
\* before its creation and is still there when it came after.
C23_FailureLeavesDestination ==
    (pc = "done" /\ result # Nil) =>
        /\ dest = destInit
        /\ (probeErr # Nil
              \/ result \in {ErrNoSourceUrls, ErrSourcesFileMismatch, ErrCreate})
             => staging = Absent
        /\ result \in {ErrFailedChunkDownloadAllSources, ErrWrite,
                       ErrETagMismatch, ErrRename}
             => staging.exists

\* the integrity check failed and the file that was at the destination
\* before is still there, next to the staging file
C23_Witness ==
    /\ pc = "done"
    /\ result = ErrETagMismatch
    /\ destInit = OldDest
    /\ dest = OldDest
    /\ staging.exists

====
